---- MODULE Spec2Model ----
(***************************************************************************)
(* Model of the Twilio SMS integration (custom_components/twilio_sms_ui):  *)
(* the dispatcher of __init__.py (runtime registry hass.data[DOMAIN], the  *)
(* send_message service and its handler) and the setup wizard of           *)
(* config_flow.py.                                                         *)
(*                                                                         *)
(* Strings whose structure the code inspects (URLs, media paths) are       *)
(* sequences of tokens: a token is "/", " " or a chunk free of both, so    *)
(* "https://a/" is <<"https:", "/", "/", "a", "/">>.  Phone numbers,       *)
(* account sids and tokens are atoms.  A Python dict is a function whose   *)
(* domain is its key set; hass.data[DOMAIN], whose iteration order the     *)
(* code relies on, is a sequence of entries in insertion order.  A value   *)
(* that may be None is a sequence of length 0 (None) or 1.                 *)
(***************************************************************************)
EXTENDS Integers, Sequences, FiniteSets, TLC

(* ------------------------------ bounds -------------------------------- *)

\* longest target list of one service call
MaxTargets == 2
\* longest media_url list of one service call
MaxMedia == 2

(* --------------------------- const.py --------------------------------- *)

DOMAIN_NAME == "twilio_sms_ui"
CONF_ACCOUNT_SID == "account_sid"
CONF_AUTH_TOKEN == "auth_token"
CONF_PHONE_NUMBERS == "phone_numbers"
CONF_EXTERNAL_URL == "external_url"
CONF_DEBUG == "debug"
SERVICE_SEND_MESSAGE == "send_message"

(* --------------------------- value domains ---------------------------- *)

EntryIds == {"e1", "e2"}
AccountSids == {"AC1", "AC2"}
AuthTokens == {"tok1"}
Numbers == {"+1", "+2"}
\* the target list of a call: a plain string first, templates after it
TargetList(n) ==
    [k \in 1..n |-> IF k = 1 THEN [kind |-> "str", text |-> <<"+", 1>>]
                               ELSE [kind |-> "template", text |-> <<"+", k>>]]
TargetLists == {TargetList(n) : n \in 0..MaxTargets}
MessageValue == [kind |-> "template", text |-> "hello"]

EmptyStr == <<>>
UrlA == <<"https:", "/", "/", "a">>
UrlB == <<"https:", "/", "/", "b">>
StoredUrls == {EmptyStr, UrlA, UrlB}

\* what the host's get_url can do: return an address or raise
HostUrlOutcomes ==
    { [raises |-> FALSE, url |-> <<"https:", "/", "/", "h", "/">>],
      [raises |-> TRUE, url |-> EmptyStr] }

\* the media_url list of a call: a local path first, then an absolute
\* address (a template), then local paths again
MediaValue(k) ==
    IF k = 2 THEN [kind |-> "template", text |-> <<"https:", "/", "/", "x", "/", "p">>]
    ELSE IF k = 3 THEN [kind |-> "str", text |-> <<"/", "media", "/", "q">>]
    ELSE [kind |-> "str", text |-> <<"/", "local", "/", "p">>]
MediaList(n) == [k \in 1..n |-> MediaValue(k)]

None == <<>>
Some(x) == <<x>>

RECURSIVE SeqsUpTo(_, _)
SeqsUpTo(S, n) ==
    IF n = 0 THEN {<<>>}
    ELSE LET shorter == SeqsUpTo(S, n - 1)
         IN  shorter \cup {Append(s, x) : s \in {t \in shorter : Len(t) = n - 1}, x \in S}

Range(s) == {s[i] : i \in 1..Len(s)}
Contains(s, x) == \E i \in 1..Len(s) : s[i] = x
NoDuplicates(s) == \A i, j \in 1..Len(s) : s[i] = s[j] => i = j

\* the number lists a selection form can submit (cv.multi_select over the
\* account's numbers), the empty selection included
Selections == {s \in SeqsUpTo(Numbers, Cardinality(Numbers)) : NoDuplicates(s)}
NumberLists == Selections \ {<<>>}

(* ------------------------------ state --------------------------------- *)

VARIABLES
    config_entries,  \* the host's configuration records: entry_id -> [data, options, state]
    hass_data,       \* hass.data[DOMAIN]: sequence of [entry_id, client, phone_numbers, external_url, debug]
    services,        \* hass.services: service name -> [schema, handler], the registered handlers
    service_desc,    \* the published service description: the from_number selector's options
    reload_pc,       \* entry_id -> position of hass.config_entries.async_reload for the entry
    call,            \* the frame of async_send_message while a service call runs
    sent,            \* the client.messages.create calls issued by the current service call
    logged,          \* the _LOGGER records of the current service call
    flows,           \* the setup-wizard flow instances
    options_flow     \* the FlowResult of the last options-flow step, and whether the
                     \* provider validated the credentials in that step

vars == <<config_entries, hass_data, services, service_desc, reload_pc, call, sent, logged,
          flows, options_flow>>

EmptyDict == [k \in {} |-> TRUE]
DictGet(d, k, default) == IF k \in DOMAIN d THEN d[k] ELSE default

(* ------------------- __init__.py: pure helpers ------------------------ *)

StartsWith(s, prefix) ==
    Len(s) >= Len(prefix) /\ SubSeq(s, 1, Len(prefix)) = prefix

\* mutant: trailing slashes are kept
KeepSlash(s) == s

\* str.rstrip("/")
RECURSIVE RStripSlash(_)
RStripSlash(s) ==
    IF s # <<>> /\ s[Len(s)] = "/" THEN RStripSlash(SubSeq(s, 1, Len(s) - 1)) ELSE s

\* str.strip(): leading and trailing whitespace removed
RECURSIVE Strip(_)
Strip(s) ==
    IF s # <<>> /\ Head(s) = " " THEN Strip(Tail(s))
    ELSE IF s # <<>> /\ s[Len(s)] = " " THEN Strip(SubSeq(s, 1, Len(s) - 1))
    ELSE s

LOCAL_PATH_PREFIXES == << <<"/", "local", "/">>, <<"/", "media", "/">>, <<"/", "api", "/">> >>
HTTP_PREFIXES == { <<"http:", "/", "/">>, <<"https:", "/", "/">> }

\* mutant: the membership test of the inner loop is dropped
ExtendAll(all_numbers, numbers) == all_numbers \o numbers

\* the inner loop of _get_all_phone_numbers: append each number not yet listed
RECURSIVE ExtendUnique(_, _)
ExtendUnique(all_numbers, numbers) ==
    IF numbers = <<>> THEN all_numbers
    ELSE ExtendUnique(IF Contains(all_numbers, Head(numbers))
                          THEN all_numbers
                          ELSE Append(all_numbers, Head(numbers)),
                      Tail(numbers))

\* the outer loop of _get_all_phone_numbers, over the registry in order
RECURSIVE CollectNumbers(_, _)
CollectNumbers(all_numbers, entries) ==
    IF entries = <<>> THEN all_numbers
    ELSE CollectNumbers(ExtendUnique(all_numbers, Head(entries).phone_numbers),
                        Tail(entries))

_get_all_phone_numbers(data) == CollectNumbers(<<>>, data)

\* the from_number validator of the schema: vol.In(phone_numbers), or
\* cv.string when the list is empty
_get_service_schema(phone_numbers) ==
    [from_number |-> IF phone_numbers # <<>>
                         THEN [validator |-> "In", container |-> phone_numbers]
                         ELSE [validator |-> "string", container |-> <<>>]]

\* voluptuous applying the registered schema to a call's from_number
SchemaAccepts(schema, from_number) ==
    \/ schema.from_number.validator = "string"
    \/ Contains(schema.from_number.container, from_number)

\* the description _update_service_schema hands to async_set_service_schema
_update_service_schema(data) ==
    [from_number |-> [options |-> _get_all_phone_numbers(data), custom_value |-> FALSE]]

\* template.Template renders through the host's engine, a str is returned as is;
\* either way the result is the text carried by the value
_render_template(tpl) == tpl.text

\* mutant: the loop does not stop at the first entry that has a URL
RECURSIVE _get_external_url_last(_)
_get_external_url_last(data) ==
    IF data = <<>> THEN None
    ELSE IF Head(data).external_url # EmptyStr /\ _get_external_url_last(Tail(data)) = None
        THEN Some(Head(data).external_url)
    ELSE _get_external_url_last(Tail(data))

RECURSIVE _get_external_url(_)
_get_external_url(data) ==
    IF data = <<>> THEN None
    ELSE IF Head(data).external_url # EmptyStr THEN Some(Head(data).external_url)
    ELSE _get_external_url(Tail(data))

_is_debug_enabled(data) == \E i \in 1..Len(data) : data[i].debug

LogRecord(level, msg, arg) == [level |-> level, msg |-> msg, arg |-> arg]

\* mutant: a failed resolution is not logged
_convert_local_path_to_url_silent(data, host, path) ==
    IF \E p \in HTTP_PREFIXES : StartsWith(path, p) THEN [url |-> path, log |-> <<>>]
    ELSE IF \E k \in 1..Len(LOCAL_PATH_PREFIXES) : StartsWith(path, LOCAL_PATH_PREFIXES[k])
    THEN IF _get_external_url(data) = None /\ host.raises THEN [url |-> path, log |-> <<>>]
         ELSE [url |-> RStripSlash(IF _get_external_url(data) # None
                                       THEN _get_external_url(data)[1] ELSE host.url) \o path,
               log |-> IF _is_debug_enabled(data)
                           THEN <<LogRecord("warning", "debug_converted", path)>>
                           ELSE <<>>]
    ELSE [url |-> path, log |-> <<>>]

\* _convert_local_path_to_url: the returned address and the records it logs.
\* host is what get_url does if it is called.
_convert_local_path_to_url(data, host, path) ==
    IF \E p \in HTTP_PREFIXES : StartsWith(path, p)
    THEN [url |-> path, log |-> <<>>]
    ELSE IF \E k \in 1..Len(LOCAL_PATH_PREFIXES) : StartsWith(path, LOCAL_PATH_PREFIXES[k])
    THEN LET configured == _get_external_url(data)
         IN  IF configured = None /\ host.raises
             THEN [url |-> path,
                   log |-> <<LogRecord("warning", "could_not_get_external_url", path)>>]
             ELSE LET base_url == IF configured # None THEN configured[1] ELSE host.url
                      full_url == RStripSlash(base_url) \o path
                  IN  [url |-> full_url,
                       log |-> IF _is_debug_enabled(data)
                                   THEN <<LogRecord("warning", "debug_converted", path)>>
                                   ELSE <<>>]
    ELSE [url |-> path, log |-> <<>>]

\* _send_twilio_message: the keyword arguments of client.messages.create
_send_twilio_message(client, to, body, from_number, media_urls) ==
    LET kwargs == [to |-> to, from_ |-> from_number, body |-> body]
    IN  [client |-> client,
         kwargs |-> IF media_urls # None /\ media_urls[1] # <<>>
                        THEN kwargs @@ [media_url |-> media_urls[1]]
                        ELSE kwargs]

\* hass.data[DOMAIN][entry_id] = value on an insertion-ordered dict
DictSet(data, entry_id, value) ==
    IF \E i \in 1..Len(data) : data[i].entry_id = entry_id
    THEN [i \in 1..Len(data) |-> IF data[i].entry_id = entry_id THEN value ELSE data[i]]
    ELSE Append(data, value)

\* hass.data[DOMAIN].pop(entry_id)
RECURSIVE DictPop(_, _)
DictPop(data, entry_id) ==
    IF data = <<>> THEN <<>>
    ELSE IF Head(data).entry_id = entry_id THEN DictPop(Tail(data), entry_id)
    ELSE <<Head(data)>> \o DictPop(Tail(data), entry_id)

Client(account_sid, auth_token) == [account_sid |-> account_sid, auth_token |-> auth_token]

(* ------------------- __init__.py: entry lifecycle --------------------- *)

has_service == SERVICE_SEND_MESSAGE \in DOMAIN services

\* mutant: the creation-time data take precedence over the options
RegistryEntryDataFirst(entry_id, entry) ==
    [entry_id |-> entry_id,
     client |-> Client(entry.data[CONF_ACCOUNT_SID], entry.data[CONF_AUTH_TOKEN]),
     phone_numbers |-> DictGet(entry.data, CONF_PHONE_NUMBERS,
                               DictGet(entry.options, CONF_PHONE_NUMBERS, <<>>)),
     external_url |-> DictGet(entry.data, CONF_EXTERNAL_URL,
                              DictGet(entry.options, CONF_EXTERNAL_URL, EmptyStr)),
     debug |-> DictGet(entry.data, CONF_DEBUG,
                       DictGet(entry.options, CONF_DEBUG, FALSE))]

\* the value async_setup_entry stores in hass.data[DOMAIN][entry_id]:
\* options take precedence over data
RegistryEntry(entry_id, entry) ==
    [entry_id |-> entry_id,
     client |-> Client(entry.data[CONF_ACCOUNT_SID], entry.data[CONF_AUTH_TOKEN]),
     phone_numbers |-> DictGet(entry.options, CONF_PHONE_NUMBERS,
                               DictGet(entry.data, CONF_PHONE_NUMBERS, <<>>)),
     external_url |-> DictGet(entry.options, CONF_EXTERNAL_URL,
                              DictGet(entry.data, CONF_EXTERNAL_URL, EmptyStr)),
     debug |-> DictGet(entry.options, CONF_DEBUG,
                       DictGet(entry.data, CONF_DEBUG, FALSE))]

\* hass.services.async_register, run only when the service is not there: the
\* handler is the async_send_message closure of this activation of entry_id
RegisterService(svcs, entry_id, phone_numbers) ==
    IF SERVICE_SEND_MESSAGE \in DOMAIN svcs
        THEN svcs
        ELSE (SERVICE_SEND_MESSAGE :> [schema |-> _get_service_schema(phone_numbers),
                                       handler |-> entry_id])

\* async_setup_entry; the host marks the entry loaded when it returns True
async_setup_entry(entry_id) ==
    LET stored == RegistryEntry(entry_id, config_entries[entry_id])
    IN  /\ hass_data' = DictSet(hass_data, entry_id, stored)
        /\ services' = RegisterService(services, entry_id, stored.phone_numbers)
        /\ service_desc' = _update_service_schema(hass_data')
        /\ config_entries' = [config_entries EXCEPT ![entry_id].state = "loaded"]

\* mutant: the service is removed at every unload
RemoveServiceAlways(svcs, data) ==
    [k \in DOMAIN svcs \ {SERVICE_SEND_MESSAGE} |-> svcs[k]]

\* hass.services.async_remove when the registry is empty
RemoveServiceIfEmpty(svcs, data) ==
    IF data = <<>> THEN [k \in DOMAIN svcs \ {SERVICE_SEND_MESSAGE} |-> svcs[k]] ELSE svcs

\* async_unload_entry; the host marks the entry not loaded when it returns True
async_unload_entry(entry_id) ==
    /\ hass_data' = DictPop(hass_data, entry_id)
    /\ services' = RemoveServiceIfEmpty(services, hass_data')
    /\ service_desc' = IF hass_data' = <<>> THEN service_desc
                                           ELSE _update_service_schema(hass_data')
    /\ config_entries' = [config_entries EXCEPT ![entry_id].state = "not_loaded"]

\* the host activates a configuration that is not loaded
SetupEntry(entry_id) ==
    /\ entry_id \in DOMAIN config_entries
    /\ config_entries[entry_id].state = "not_loaded"
    /\ reload_pc[entry_id] = "idle"
    /\ async_setup_entry(entry_id)
    /\ UNCHANGED <<reload_pc, call, sent, logged, flows, options_flow>>

\* the host deactivates a loaded configuration
UnloadEntry(entry_id) ==
    /\ entry_id \in DOMAIN config_entries
    /\ config_entries[entry_id].state = "loaded"
    /\ reload_pc[entry_id] = "idle"
    /\ async_unload_entry(entry_id)
    /\ UNCHANGED <<reload_pc, call, sent, logged, flows, options_flow>>

\* async_reload_entry -> hass.config_entries.async_reload: unload ...
ReloadUnload(entry_id) ==
    /\ reload_pc[entry_id] = "unload"
    /\ async_unload_entry(entry_id)
    /\ reload_pc' = [reload_pc EXCEPT ![entry_id] = "setup"]
    /\ UNCHANGED <<call, sent, logged, flows, options_flow>>

\* ... then set up again, with the entry's current data and options
ReloadSetup(entry_id) ==
    /\ reload_pc[entry_id] = "setup"
    /\ async_setup_entry(entry_id)
    /\ reload_pc' = [reload_pc EXCEPT ![entry_id] = "idle"]
    /\ UNCHANGED <<call, sent, logged, flows, options_flow>>

(* ------------------- config_flow.py: the provider --------------------- *)

\* the provider error code of an authentication failure
AUTH_ERROR_CODE == 20003
\* some other provider error code
OTHER_ERROR_CODE == AUTH_ERROR_CODE + 1

\* what validate_credentials can do: return the account's numbers (possibly
\* none), raise TwilioRestException with a code, or raise anything else
ProviderNumberLists == {<<>>, <<"+1">>, <<"+2", "+1">>}
ProviderOutcomes ==
    {[kind |-> "ok", code |-> 0, numbers |-> n] : n \in ProviderNumberLists}
    \cup {[kind |-> "TwilioRestException", code |-> c, numbers |-> <<>>] :
              c \in {AUTH_ERROR_CODE, OTHER_ERROR_CODE}}
    \cup {[kind |-> "Exception", code |-> 0, numbers |-> <<>>]}

\* external URLs as an operator may type them
RawUrls == {EmptyStr, <<" ">> \o UrlB \o <<"/", " ">>}

\* user_input.get(CONF_EXTERNAL_URL, "").strip().rstrip("/")
NormalizeUrl(raw) == RStripSlash(Strip(raw))

ShowForm(step_id, errors) ==
    [type |-> "form", step_id |-> step_id, errors |-> errors, data |-> EmptyDict]
CreateEntry(data) ==
    [type |-> "create_entry", step_id |-> "", errors |-> "", data |-> data]
Abort(reason) ==
    [type |-> "abort", step_id |-> "", errors |-> reason, data |-> EmptyDict]

(* ------------------- config_flow.py: TwilioOptionsFlow ---------------- *)

\* what the operator submits on the options form: a selection (possibly
\* empty), an external URL as typed, the debug switch
OptionsInputs ==
    { [phone_numbers |-> <<>>, external_url |-> EmptyStr, debug |-> FALSE],
      [phone_numbers |-> <<"+1">>, external_url |-> EmptyStr, debug |-> FALSE],
      [phone_numbers |-> <<"+2">>, external_url |-> <<" ">> \o UrlB \o <<"/", " ">>, debug |-> TRUE],
      [phone_numbers |-> <<"+2", "+1">>, external_url |-> UrlA, debug |-> TRUE] }

\* mutant: a failed re-validation does not end the step
OptionsStepInitUnvalidated(outcome, user_input) ==
    IF user_input # None /\ user_input[1].phone_numbers # <<>>
    THEN CreateEntry((CONF_PHONE_NUMBERS :> user_input[1].phone_numbers)
                     @@ (CONF_EXTERNAL_URL :> NormalizeUrl(user_input[1].external_url))
                     @@ (CONF_DEBUG :> user_input[1].debug))
    ELSE IF outcome.kind # "ok" THEN ShowForm("init", "cannot_connect")
    ELSE IF user_input # None THEN ShowForm("init", "no_selection")
    ELSE ShowForm("init", "")

\* TwilioOptionsFlow.async_step_init: the FlowResult for what the provider
\* did and what the operator submitted (None: the form is opened)
OptionsStepInit(outcome, user_input) ==
    IF outcome.kind # "ok"
    THEN ShowForm("init", "cannot_connect")
    ELSE IF user_input # None
    THEN LET selected_numbers == user_input[1].phone_numbers
             external_url == NormalizeUrl(user_input[1].external_url)
             debug == user_input[1].debug
         IN  IF selected_numbers = <<>>
             THEN ShowForm("init", "no_selection")
             ELSE CreateEntry((CONF_PHONE_NUMBERS :> selected_numbers)
                              @@ (CONF_EXTERNAL_URL :> external_url)
                              @@ (CONF_DEBUG :> debug))
    ELSE ShowForm("init", "")

\* One step of the options flow of a configuration.  On create_entry the host
\* stores the data as the entry's options and, if they changed and the entry is
\* loaded, calls its update listener async_reload_entry.
OptionsFlowStep(entry_id) ==
    /\ entry_id \in DOMAIN config_entries
    /\ reload_pc[entry_id] = "idle"
    /\ \E outcome \in ProviderOutcomes, user_input \in {None} \cup {Some(i) : i \in OptionsInputs} :
         LET result == OptionsStepInit(outcome, user_input)
             changed == result.type = "create_entry"
                        /\ result.data # config_entries[entry_id].options
         IN  /\ options_flow' = [type |-> result.type, errors |-> result.errors,
                                 validated |-> outcome.kind = "ok"]
             /\ config_entries' =
                    IF changed
                        THEN [config_entries EXCEPT ![entry_id].options = result.data]
                        ELSE config_entries
             /\ reload_pc' =
                    IF changed /\ config_entries[entry_id].state = "loaded"
                        THEN [reload_pc EXCEPT ![entry_id] = "unload"]
                        ELSE reload_pc
    /\ UNCHANGED <<hass_data, services, service_desc, call, sent, logged, flows>>

(* ------------------- __init__.py: async_send_message ------------------ *)

\* the comprehension over media_urls_raw: each reference rendered and
\* converted, the log records in list order
RECURSIVE ConvertAll(_, _, _)
ConvertAll(data, host, media_urls_raw) ==
    IF media_urls_raw = <<>> THEN [urls |-> <<>>, log |-> <<>>]
    ELSE LET first == _convert_local_path_to_url(data, host, _render_template(Head(media_urls_raw)))
             rest == ConvertAll(data, host, Tail(media_urls_raw))
         IN  [urls |-> <<first.url>> \o rest.urls, log |-> first.log \o rest.log]

\* mutant: the lookup has no break and keeps the last owner
RECURSIVE FindClientLast(_, _)
FindClientLast(data, from_number) ==
    IF data = <<>> THEN None
    ELSE IF FindClientLast(Tail(data), from_number) # None
        THEN FindClientLast(Tail(data), from_number)
    ELSE IF Contains(Head(data).phone_numbers, from_number) THEN Some(Head(data).client)
    ELSE None

\* mutant: the lookup gives up after the first registry entry
FindClientFirstOnly(data, from_number) ==
    IF data # <<>> /\ Contains(Head(data).phone_numbers, from_number)
        THEN Some(Head(data).client)
        ELSE None

\* the owner lookup: the client of the first registry entry listing from_number
RECURSIVE FindClient(_, _)
FindClient(data, from_number) ==
    IF data = <<>> THEN None
    ELSE IF Contains(Head(data).phone_numbers, from_number) THEN Some(Head(data).client)
    ELSE FindClient(Tail(data), from_number)

IdleCall ==
    [pc |-> "idle", targets |-> <<>>, message |-> "", media_urls_raw |-> None,
     media_urls |-> None, from_number |-> "", entry_client |-> None, i |-> 0]

\* mutant: the owner is looked up again before each send
SendLoopRelookup(frame, i, log, issued) ==
    IF i > Len(frame.targets)
    THEN /\ call' = [frame EXCEPT !.pc = "returned", !.i = i]
         /\ logged' = log
         /\ sent' = issued
    ELSE /\ call' = [frame EXCEPT !.pc = "await_send", !.i = i]
         /\ logged' = IF _is_debug_enabled(hass_data)
                          THEN Append(log, LogRecord("warning", "debug_sending", <<frame.targets[i]>>))
                          ELSE log
         /\ sent' = Append(issued,
                           _send_twilio_message(
                               IF FindClient(hass_data, frame.from_number) # None
                                   THEN FindClient(hass_data, frame.from_number)[1]
                                   ELSE frame.entry_client[1],
                               frame.targets[i], frame.message, frame.from_number,
                               frame.media_urls))

\* The body of the loop over targets from target i on, up to the next await:
\* the loop is over (the handler returns), or the debug record is written and
\* the send for target i is handed to the executor.
SendLoop(frame, i, log, issued) ==
    IF i > Len(frame.targets)
    THEN /\ call' = [frame EXCEPT !.pc = "returned", !.i = i]
         /\ logged' = log
         /\ sent' = issued
    ELSE /\ call' = [frame EXCEPT !.pc = "await_send", !.i = i]
         /\ logged' = IF _is_debug_enabled(hass_data)
                          THEN Append(log, LogRecord("warning", "debug_sending", <<frame.targets[i]>>))
                          ELSE log
         /\ sent' = Append(issued, _send_twilio_message(frame.entry_client[1], frame.targets[i],
                                                         frame.message, frame.from_number,
                                                         frame.media_urls))

\* mutant: the membership test never fails
NotConfiguredNever(all_numbers, from_number) == FALSE

\* the membership test: from_number not in all_numbers
NotConfigured(all_numbers, from_number) == ~Contains(all_numbers, from_number)

\* async_send_message from its start to its first await or its return
HandlerStart(targets_raw, message_raw, media_urls_raw, from_number, host) ==
    LET targets == [k \in 1..Len(targets_raw) |-> _render_template(targets_raw[k])]
        message == _render_template(message_raw)
        converted == IF media_urls_raw # None /\ media_urls_raw[1] # <<>>
                         THEN ConvertAll(hass_data, host, media_urls_raw[1])
                         ELSE [urls |-> <<>>, log |-> <<>>]
        media_urls == IF media_urls_raw # None /\ media_urls_raw[1] # <<>>
                          THEN Some(converted.urls)
                          ELSE None
        all_numbers == _get_all_phone_numbers(hass_data)
        entry_client == FindClient(hass_data, from_number)
        frame == [pc |-> "running", targets |-> targets, message |-> message,
                  media_urls_raw |-> media_urls_raw, media_urls |-> media_urls,
                  from_number |-> from_number, entry_client |-> None, i |-> 0]
    IN  IF NotConfigured(all_numbers, from_number)
        THEN /\ call' = [frame EXCEPT !.pc = "returned"]
             /\ logged' = Append(converted.log,
                                 LogRecord("error", "from_number_not_configured", <<from_number>>))
             /\ sent' = <<>>
        ELSE IF entry_client = None
        THEN /\ call' = [frame EXCEPT !.pc = "returned"]
             /\ logged' = Append(converted.log,
                                 LogRecord("error", "no_client_found", <<from_number>>))
             /\ sent' = <<>>
        ELSE SendLoop([frame EXCEPT !.entry_client = entry_client], 1, converted.log, <<>>)

MediaInputs == {None} \cup {Some(MediaList(n)) : n \in 0..MaxMedia}

\* The host receives a call of twilio_sms_ui.send_message.  It applies the
\* schema the service was registered with; a call the schema refuses never
\* reaches the handler.
ServiceCallFrom(target_lists, media_inputs, host_outcomes) ==
    /\ has_service
    /\ call.pc = "idle"
    /\ \E targets_raw \in target_lists, media_urls_raw \in media_inputs,
          from_number \in Numbers, host \in host_outcomes :
         IF SchemaAccepts(services[SERVICE_SEND_MESSAGE].schema, from_number)
         THEN HandlerStart(targets_raw, MessageValue, media_urls_raw, from_number, host)
         ELSE /\ call' = [IdleCall EXCEPT !.pc = "rejected", !.from_number = from_number]
              /\ sent' = <<>>
              /\ logged' = <<>>
    /\ UNCHANGED <<config_entries, hass_data, services, service_desc, reload_pc, flows, options_flow>>

ServiceCall == ServiceCallFrom(TargetLists, MediaInputs, HostUrlOutcomes)

\* what client.messages.create can do: return, raise the provider's
\* TwilioRestException, or raise anything else (a transport failure)
SendOutcomes == {"ok", "TwilioRestException", "Exception"}

\* The executor job of target call.i ends and the handler resumes: it logs
\* the result and goes on with the next target; an exception other than
\* TwilioRestException is not caught and ends the handler.
SendReturn ==
    /\ call.pc = "await_send"
    /\ \E outcome \in SendOutcomes :
         CASE outcome = "ok" ->
                SendLoop(call, call.i + 1,
                         Append(logged, LogRecord("debug", "sms_sent", <<call.targets[call.i]>>)),
                         sent)
           [] outcome = "TwilioRestException" ->
                SendLoop(call, call.i + 1,
                         Append(logged, LogRecord("error", "failed_to_send", <<call.targets[call.i]>>)),
                         sent)
           [] outcome = "Exception" ->
                /\ call' = [call EXCEPT !.pc = "raised"]
                /\ UNCHANGED <<sent, logged>>
    /\ UNCHANGED <<config_entries, hass_data, services, service_desc, reload_pc, flows, options_flow>>

\* the call is over (returned, raised, or refused by the schema): the host
\* drops the handler's frame, and the record of what the call did starts anew
CallDone ==
    /\ call.pc \in {"returned", "raised", "rejected"}
    /\ call' = IdleCall
    /\ sent' = <<>>
    /\ logged' = <<>>
    /\ UNCHANGED <<config_entries, hass_data, services, service_desc, reload_pc,
                   flows, options_flow>>

(* ------------------- config_flow.py: TwilioConfigFlow ----------------- *)

FlowIds == {"f1", "f2"}

NoOutcome == [kind |-> "none", code |-> 0, numbers |-> <<>>]

\* TwilioConfigFlow.__init__ followed by async_step_user(None): the
\* credential form is shown.  last_outcome is history: what the provider did
\* at the most recent credential submission.
NewFlowState ==
    [step |-> "user", _account_sid |-> "", _auth_token |-> "", _available_numbers |-> <<>>,
     result |-> [type |-> "form", errors |-> ""], last_outcome |-> NoOutcome]

\* a flow that ended: the host discards the flow object and keeps its result
EndedFlow(type, reason) ==
    [NewFlowState EXCEPT !.step = type, !.result = [type |-> type, errors |-> reason]]

\* the operator opens a new wizard in place of one that has ended
NewFlow(f) ==
    /\ flows[f].step \in {"create_entry", "abort"}
    /\ flows' = [flows EXCEPT ![f] = NewFlowState]
    /\ UNCHANGED <<config_entries, hass_data, services, service_desc, reload_pc, call, sent,
                   logged, options_flow>>

\* mutant: the provider error's code is not looked at
UserStepErrorNoCode(outcome) ==
    IF outcome.kind = "ok"
        THEN IF outcome.numbers = <<>> THEN "no_phone_numbers" ELSE ""
    ELSE IF outcome.kind = "TwilioRestException" THEN "cannot_connect"
    ELSE "unknown"

\* the errors["base"] of async_step_user for a provider outcome ("": none)
UserStepError(outcome) ==
    IF outcome.kind = "ok"
        THEN IF outcome.numbers = <<>> THEN "no_phone_numbers" ELSE ""
    ELSE IF outcome.kind = "TwilioRestException"
        THEN IF outcome.code = AUTH_ERROR_CODE THEN "invalid_auth" ELSE "cannot_connect"
    ELSE "unknown"

\* mutant: the empty result is not told from a non-empty one
AdvancesOnAnyResult(outcome) == outcome.kind = "ok"

\* async_step_user goes on to async_step_select_numbers: the query succeeded
\* and returned numbers
Advances(outcome) == outcome.kind = "ok" /\ outcome.numbers # <<>>

\* async_step_user with the credentials submitted
StepUser(f) ==
    /\ flows[f].step = "user"
    /\ \E account_sid \in AccountSids, auth_token \in AuthTokens, outcome \in ProviderOutcomes :
         LET errors == UserStepError(outcome)
             advance == Advances(outcome)
         IN  flows' = [flows EXCEPT
                 ![f]._account_sid = account_sid,
                 ![f]._auth_token = auth_token,
                 ![f]._available_numbers =
                     IF outcome.kind = "ok" THEN outcome.numbers ELSE @,
                 ![f].step = IF advance THEN "select_numbers" ELSE "user",
                 ![f].result = [type |-> "form", errors |-> errors],
                 ![f].last_outcome = outcome]
    /\ UNCHANGED <<config_entries, hass_data, services, service_desc, reload_pc, call, sent,
                   logged, options_flow>>

\* mutant: the unique id is never found configured
UniqueIdNeverConfigured(entries, unique_id) == FALSE

\* _abort_if_unique_id_configured: a record with this unique id exists
UniqueIdConfigured(entries, unique_id) ==
    \E e \in DOMAIN entries : entries[e].unique_id = unique_id

\* the entry_id the host gives a new record: one not in use
NewEntryId(entries) ==
    CHOOSE e \in EntryIds \ DOMAIN entries :
        \A o \in EntryIds \ DOMAIN entries : e = "e1" \/ o # "e1"

\* the record the host stores for async_create_entry(data=...)
NewConfigEntry(unique_id, data) ==
    [unique_id |-> unique_id, data |-> data, options |-> EmptyDict, state |-> "not_loaded"]

\* cv.multi_select over the numbers offered: any of them, in the order offered
RECURSIVE FormSelections(_)
FormSelections(available) ==
    IF available = <<>> THEN {<<>>}
    ELSE LET rest == FormSelections(Tail(available))
         IN  rest \cup {<<Head(available)>> \o r : r \in rest}

\* async_step_select_numbers with a selection submitted
StepSelectNumbers(f) ==
    /\ flows[f].step = "select_numbers"
    /\ \E selected_numbers \in FormSelections(flows[f]._available_numbers),
          raw_url \in RawUrls :
         LET external_url == NormalizeUrl(raw_url)
         IN  IF selected_numbers = <<>>
             THEN /\ flows' = [flows EXCEPT ![f].result = [type |-> "form", errors |-> "no_selection"]]
                  /\ UNCHANGED config_entries
             ELSE IF UniqueIdConfigured(config_entries, flows[f]._account_sid)
             THEN /\ flows' = [flows EXCEPT ![f] = EndedFlow("abort", "already_configured")]
                  /\ UNCHANGED config_entries
             ELSE /\ EntryIds \ DOMAIN config_entries # {}
                  /\ flows' = [flows EXCEPT ![f] = EndedFlow("create_entry", "")]
                  /\ LET entry_id == NewEntryId(config_entries)
                     IN config_entries' = config_entries @@
                           (entry_id :> NewConfigEntry(flows[f]._account_sid,
                                (CONF_ACCOUNT_SID :> flows[f]._account_sid)
                                @@ (CONF_AUTH_TOKEN :> flows[f]._auth_token)
                                @@ (CONF_PHONE_NUMBERS :> selected_numbers)
                                @@ (CONF_EXTERNAL_URL :> external_url)))
    /\ UNCHANGED <<hass_data, services, service_desc, reload_pc, call, sent, logged, options_flow>>

(* --------------------------- specifications --------------------------- *)

AccountOf(e) == IF e = "e1" THEN "AC1" ELSE "AC2"

\* a record as the wizard creates it and the options flow revises it
PersistedEntry(e, numbers, url, options) ==
    [NewConfigEntry(AccountOf(e),
                    (CONF_ACCOUNT_SID :> AccountOf(e)) @@ (CONF_AUTH_TOKEN :> "tok1")
                    @@ (CONF_PHONE_NUMBERS :> numbers) @@ (CONF_EXTERNAL_URL :> url))
        EXCEPT !.options = options]

\* options of an earlier revision that switched verbose logging on
DebugOptions(numbers, url) ==
    (CONF_PHONE_NUMBERS :> numbers) @@ (CONF_EXTERNAL_URL :> url) @@ (CONF_DEBUG :> TRUE)

InitCommon ==
    /\ hass_data = <<>>
    /\ services = EmptyDict
    /\ service_desc = [from_number |-> [options |-> <<>>, custom_value |-> FALSE]]
    /\ reload_pc = [e \in EntryIds |-> "idle"]
    /\ call = IdleCall
    /\ sent = <<>>
    /\ logged = <<>>
    /\ flows = [f \in FlowIds |-> NewFlowState]
    /\ options_flow = [type |-> "none", errors |-> "", validated |-> FALSE]

\* the persisted configurations the service-call specification starts from:
\* selections that overlap or not, with and without an external URL, verbose
\* logging on (through revised options) or off
EntryConfigs ==
    { [phone_numbers |-> <<"+1">>, external_url |-> EmptyStr, debug |-> FALSE],
      [phone_numbers |-> <<"+2">>, external_url |-> UrlA, debug |-> FALSE],
      [phone_numbers |-> <<"+2", "+1">>, external_url |-> UrlB, debug |-> TRUE],
      [phone_numbers |-> <<"+1", "+2">>, external_url |-> EmptyStr, debug |-> TRUE] }

\* Service calls.  The host starts with one persisted record per account,
\* none loaded.  The host activates and deactivates the records while calls
\* of the service run.
Init ==
    /\ config_entries \in
         {[e \in EntryIds |->
              PersistedEntry(e, cfg[e].phone_numbers, cfg[e].external_url,
                             IF cfg[e].debug
                                 THEN DebugOptions(cfg[e].phone_numbers, cfg[e].external_url)
                                 ELSE EmptyDict)] :
              cfg \in [EntryIds -> EntryConfigs]}
    /\ InitCommon

Next ==
    \/ \E e \in EntryIds : SetupEntry(e)
    \/ \E e \in EntryIds : UnloadEntry(e)
    \/ ServiceCall
    \/ SendReturn
    \/ CallDone

Spec == Init /\ [][Next]_vars

\* The lifecycle.  The host starts with one persisted record per account as
\* the wizard created it; the operator revises the records through the
\* options flow while the host activates, deactivates and reloads them.
InitLifecycle ==
    /\ config_entries \in
         {[e \in EntryIds |-> PersistedEntry(e, nums[e], EmptyStr, EmptyDict)] :
              nums \in [EntryIds -> {<<"+1">>, <<"+2">>, <<"+1", "+2">>}]}
    /\ InitCommon

NextLifecycle ==
    \/ \E e \in EntryIds : SetupEntry(e)
    \/ \E e \in EntryIds : UnloadEntry(e)
    \/ \E e \in EntryIds : OptionsFlowStep(e)
    \/ \E e \in EntryIds : ReloadUnload(e)
    \/ \E e \in EntryIds : ReloadSetup(e)

SpecLifecycle == InitLifecycle /\ [][NextLifecycle]_vars

\* The lifecycle with the host's scheduling: a reload the update listener
\* started is a task of the event loop, which runs it to its end (the unload,
\* then the setup).
FairReload ==
    \A e \in EntryIds : WF_vars(ReloadUnload(e)) /\ WF_vars(ReloadSetup(e))

SpecReload == SpecLifecycle /\ FairReload

\* The wizard.  The host starts with no record; operators run wizards side
\* by side and the host activates and deactivates the records they create.
InitWizard ==
    /\ config_entries = EmptyDict
    /\ InitCommon

NextWizard ==
    \/ \E f \in FlowIds : NewFlow(f)
    \/ \E f \in FlowIds : StepUser(f)
    \/ \E f \in FlowIds : StepSelectNumbers(f)
    \/ \E e \in EntryIds : SetupEntry(e)
    \/ \E e \in EntryIds : UnloadEntry(e)

SpecWizard == InitWizard /\ [][NextWizard]_vars

\* Media rewriting.  References of every shape the handler tells apart:
\* absolute http and https addresses (one with a local prefix further in), the
\* three local prefixes, and paths that only resemble them.
MediaPaths ==
    { <<"http:", "/", "/", "x", "/", "local", "/", "p">>,
      <<"https:", "/", "/", "x", "/", "p">>,
      <<"/", "local", "/", "p">>,
      <<"/", "media", "/", "q">>,
      <<"/", "api", "/", "r">>,
      <<"/", "other", "/", "p">>,
      <<"local", "/", "p">>,
      <<"/", "local">>,
      <<"/", "localx", "/", "p">>,
      <<"ftp:", "/", "/", "x", "/", "p">> }

\* a media_url list of one reference, given as a str or as a template
MediaPathInputs ==
    {Some(<<[kind |-> k, text |-> path]>>) : k \in {"str", "template"}, path \in MediaPaths}

\* get_url: addresses with no, one and two trailing slashes, or an exception
MediaHostOutcomes ==
    HostUrlOutcomes
    \cup { [raises |-> FALSE, url |-> <<"http:", "/", "/", "h:8123">>],
           [raises |-> FALSE, url |-> <<"https:", "/", "/", "h", "/", "/">>] }

\* external URLs as operators typed them into the wizard
MediaRawUrls == RawUrls \cup {UrlA \o <<"/", "/">>}

\* a service call with one target and one media reference
MediaCall == ServiceCallFrom({TargetList(1)}, MediaPathInputs, MediaHostOutcomes)

\* The host starts with one record per account, its external URL stored as
\* async_step_select_numbers normalises what the operator typed.
InitMedia ==
    /\ config_entries \in
         {[e \in EntryIds |->
              PersistedEntry(e, IF e = "e1" THEN <<"+1">> ELSE <<"+2">>,
                             NormalizeUrl(raw[e]), EmptyDict)] :
              raw \in [EntryIds -> MediaRawUrls]}
    /\ InitCommon

NextMedia ==
    \/ \E e \in EntryIds : SetupEntry(e)
    \/ \E e \in EntryIds : UnloadEntry(e)
    \/ MediaCall
    \/ SendReturn
    \/ CallDone

SpecMedia == InitMedia /\ [][NextMedia]_vars

(* ------------------------------ claims -------------------------------- *)

SendService == services[SERVICE_SEND_MESSAGE]
Errors(log) == SelectSeq(log, LAMBDA r : r.level = "error")
\* the numbers of all registry entries, entry after entry, repeats kept
RECURSIVE Flatten(_)
Flatten(data) == IF data = <<>> THEN <<>> ELSE Head(data).phone_numbers \o Flatten(Tail(data))
FirstIndex(s, x) == CHOOSE i \in 1..Len(s) : s[i] = x /\ \A j \in 1..(i - 1) : s[j] # x
\* a service call has just entered the handler (the schema let it through)
HandlerEntered == call.pc = "idle" /\ call'.pc \in {"await_send", "returned"}

\* C1 (as claimed): while the service is registered, the from_number values its
\* schema accepts are exactly the numbers of the aggregate sender list.
C1_EnforcedEnumerationIsAggregate ==
    has_service =>
        \A n \in Numbers :
            SchemaAccepts(SendService.schema, n) <=> Contains(_get_all_phone_numbers(hass_data), n)

\* C2: the service is registered if and only if the registry holds an entry.
C2_RegisteredIffRegistryNonEmpty == has_service <=> hass_data # <<>>

\* C2 witness: one configuration remains after another was deactivated, and the
\* service is still the one registered before (its schema is not the remaining
\* entry's).
C2_Witness ==
    /\ has_service
    /\ Len(hass_data) = 1
    /\ SendService.schema.from_number.container # hass_data[1].phone_numbers

\* C3: a call that enters the handler with a from_number outside the aggregate
\* sender list issues no send, logs the one error "not in configured numbers"
\* and nothing else at error level, and returns.
C3_UnknownSenderNoSends ==
    [][(HandlerEntered /\ ~Contains(_get_all_phone_numbers(hass_data), call'.from_number))
       => /\ sent' = <<>>
          /\ call'.pc = "returned"
          /\ Errors(logged') =
                 <<LogRecord("error", "from_number_not_configured", <<call'.from_number>>)>>]_vars

\* C3 witness: such a call, with the longest target list and a media list, returned.
C3_Witness ==
    /\ call.pc = "returned"
    /\ Len(call.targets) = MaxTargets
    /\ call.media_urls # None
    /\ sent = <<>>
    /\ Len(Errors(logged)) = 1
    /\ logged[Len(logged)].msg = "from_number_not_configured"

\* C4 (as claimed): a call with a valid from_number that is over has issued
\* exactly one send per target, in target order.
C4_OneSendPerTarget ==
    (call.pc \in {"returned", "raised"} /\ call.entry_client # None)
        => /\ Len(sent) = Len(call.targets)
           /\ \A k \in 1..Len(sent) : sent[k].kwargs.to = call.targets[k]

IsLocalPath(path) == \E k \in 1..Len(LOCAL_PATH_PREFIXES) : StartsWith(path, LOCAL_PATH_PREFIXES[k])
\* the registry entries that list a number
Owners(data, n) == {i \in 1..Len(data) : Contains(data[i].phone_numbers, n)}

\* C5 (as claimed): when a call with a local media reference enters the handler
\* and the entry that owns the sender number (the one whose client the call
\* uses) has an external URL of its own, the reference is rewritten with that
\* entry's URL.
C5_OwnersUrlUsed ==
    [][(HandlerEntered /\ call'.media_urls # None)
       => \A k \in 1..Len(call'.media_urls[1]) :
            \A i \in Owners(hass_data, call'.from_number) :
              ( /\ \A j \in Owners(hass_data, call'.from_number) : i <= j
                /\ IsLocalPath(MediaValue(k).text)
                /\ hass_data[i].external_url # EmptyStr )
                 => call'.media_urls[1][k] =
                        RStripSlash(hass_data[i].external_url) \o MediaValue(k).text]_vars

\* C5 (amended): the reference is rewritten with the external URL of the first
\* registry entry that has one, whoever owns the sender number; the host's
\* address (or, if it cannot be resolved, the reference as given) is used only
\* when no registry entry has an external URL.
C5_FirstConfiguredUrlUsed ==
    [][(HandlerEntered /\ call'.media_urls # None)
       => \A k \in 1..Len(call'.media_urls[1]) :
            IsLocalPath(MediaValue(k).text) =>
              LET with_url == {i \in 1..Len(hass_data) : hass_data[i].external_url # EmptyStr}
                  got == call'.media_urls[1][k]
              IN  IF with_url # {}
                  THEN \E i \in with_url :
                         /\ \A j \in with_url : i <= j
                         /\ got = RStripSlash(hass_data[i].external_url) \o MediaValue(k).text
                  ELSE \/ got = MediaValue(k).text
                       \/ \E h \in HostUrlOutcomes :
                            ~h.raises /\ got = RStripSlash(h.url) \o MediaValue(k).text]_vars

\* C5 witness: two entries with different external URLs are active, the sender
\* number of the running call belongs to the second one only, and the local
\* reference was rewritten with the first one's URL.
C5_Witness ==
    /\ call.pc = "await_send"
    /\ call.media_urls # None
    /\ Len(hass_data) = 2
    /\ hass_data[1].external_url # EmptyStr
    /\ hass_data[2].external_url # EmptyStr
    /\ hass_data[1].external_url # hass_data[2].external_url
    /\ Owners(hass_data, call.from_number) = {2}
    /\ call.entry_client = Some(hass_data[2].client)
    /\ call.media_urls[1][1] = hass_data[1].external_url \o MediaValue(1).text

\* C6: the aggregate sender list holds every number of every registry entry and
\* nothing else, no number twice, in the order of first occurrence (registry
\* order, then each entry's list order).
C6_AggregateIsOrderedUnion ==
    LET agg == _get_all_phone_numbers(hass_data)
        flat == Flatten(hass_data)
    IN  /\ Range(agg) = Range(flat)
        /\ NoDuplicates(agg)
        /\ \A i, j \in 1..Len(agg) :
             i < j => FirstIndex(flat, agg[i]) < FirstIndex(flat, agg[j])

\* C6 witness: two active entries share a number and the aggregate list has
\* both numbers, the first entry's order first.
C6_Witness ==
    /\ Len(hass_data) = 2
    /\ Range(hass_data[1].phone_numbers) \cap Range(hass_data[2].phone_numbers) # {}
    /\ Len(hass_data[2].phone_numbers) = 2
    /\ Len(_get_all_phone_numbers(hass_data)) = 2
    /\ _get_all_phone_numbers(hass_data)[1] = hass_data[1].phone_numbers[1]

\* C7: the client a call resolves is that of the first registry entry (in
\* registry order, at the time of the call) that lists the sender number, and
\* every send of the call goes through that one client.
C7_FirstOwnerRoutesAllSends ==
    [][/\ (HandlerEntered /\ call'.entry_client # None)
            => \E i \in Owners(hass_data, call'.from_number) :
                 /\ \A j \in Owners(hass_data, call'.from_number) : i <= j
                 /\ call'.entry_client = Some(hass_data[i].client)
       /\ call'.entry_client # None
            => /\ call'.entry_client = IF call.pc = "idle" THEN call'.entry_client
                                                           ELSE call.entry_client
               /\ \A k \in 1..Len(sent') : sent'[k].client = call'.entry_client[1]]_vars

\* C7 witness: both active entries list the sender number of the running call,
\* whose second send has been issued through the first entry's client.
C7_Witness ==
    /\ call.pc = "await_send"
    /\ Len(sent) = 2
    /\ Len(hass_data) = 2
    /\ Owners(hass_data, call.from_number) = {1, 2}
    /\ hass_data[1].client # hass_data[2].client
    /\ \A k \in 1..2 : sent[k].client = hass_data[1].client

\* two records, or two registry entries, of one account
DuplicateAccount(entries, data) ==
    \/ \E a, b \in DOMAIN entries :
         a # b /\ ( \/ entries[a].unique_id = entries[b].unique_id
                    \/ entries[a].data[CONF_ACCOUNT_SID] = entries[b].data[CONF_ACCOUNT_SID] )
    \/ \E i, j \in 1..Len(data) :
         i # j /\ data[i].client.account_sid = data[j].client.account_sid

\* C8: no two configuration records and no two registry entries are of the same
\* account; a number-selection step that ends the flow for an account that has
\* a record ends it with the abort "already_configured" and leaves the records
\* as they were.
C8_OneRecordPerAccount ==
    [][/\ ~DuplicateAccount(config_entries', hass_data')
       /\ \A f \in FlowIds :
            ( /\ flows[f].step = "select_numbers"
              /\ flows'[f].step # "select_numbers"
              /\ \E e \in DOMAIN config_entries :
                   config_entries[e].unique_id = flows[f]._account_sid )
            => /\ flows'[f].result = [type |-> "abort", errors |-> "already_configured"]
               /\ config_entries' = config_entries]_vars

\* C8 witness: a wizard was aborted as already configured while the account's
\* record is there and active.
C8_Witness ==
    /\ \E f \in FlowIds : flows[f].result = [type |-> "abort", errors |-> "already_configured"]
    /\ Cardinality(DOMAIN config_entries) = 1
    /\ Len(hass_data) = 1

ValidatedNonEmpty(outcome) == outcome.kind = "ok" /\ outcome.numbers # <<>>

\* C9: a flow is at the number selection only if the provider validated its
\* most recent credential submission with a non-empty list; a record appears
\* only by a flow leaving the number selection with create_entry, for the
\* account of that submission and with a non-empty selection of the numbers
\* offered; a failed credential submission leaves the flow at the credential
\* form, an empty selection leaves it at the number selection, and neither
\* creates a record.
C9_WizardStateMachine ==
    [][/\ \A f \in FlowIds :
            /\ flows'[f].step = "select_numbers"
                 => /\ ValidatedNonEmpty(flows'[f].last_outcome)
                    /\ flows'[f]._available_numbers = flows'[f].last_outcome.numbers
                    /\ flows[f].step \in {"user", "select_numbers"}
            /\ (flows[f].step = "user" /\ flows'[f] # flows[f]
                   /\ ~ValidatedNonEmpty(flows'[f].last_outcome))
                 => flows'[f].step = "user" /\ DOMAIN config_entries' = DOMAIN config_entries
            /\ (flows'[f].result.errors = "no_selection" /\ flows'[f] # flows[f])
                 => flows'[f].step = "select_numbers"
                    /\ DOMAIN config_entries' = DOMAIN config_entries
            /\ flows'[f].step = "create_entry" => flows[f].step \in {"select_numbers", "create_entry"}
       /\ \A e \in DOMAIN config_entries' \ DOMAIN config_entries :
            \E f \in FlowIds :
              /\ flows[f].step = "select_numbers"
              /\ flows'[f].step = "create_entry"
              /\ config_entries'[e].data[CONF_ACCOUNT_SID] = flows[f]._account_sid
              /\ config_entries'[e].data[CONF_PHONE_NUMBERS] # <<>>
              /\ Range(config_entries'[e].data[CONF_PHONE_NUMBERS])
                     \subseteq Range(flows[f].last_outcome.numbers)
       /\ \A e \in DOMAIN config_entries : e \in DOMAIN config_entries'
                                           /\ config_entries'[e].data = config_entries[e].data]_vars

\* C9 witness: one wizard has created a record and the other, after an empty
\* selection, is again at the number selection.
C9_Witness ==
    /\ \E f \in FlowIds : flows[f].step = "create_entry"
    /\ \E f \in FlowIds : flows[f].step = "select_numbers" /\ flows[f].result.errors = "no_selection"
    /\ DOMAIN config_entries # {}

\* C10: after a credential submission the flow shows: for a provider error
\* with the authentication code the credential form with "invalid_auth"; for
\* any other provider error the credential form with "cannot_connect"; for any
\* other failure the credential form with "unknown"; for a successful query
\* without numbers the credential form with "no_phone_numbers"; and only for a
\* successful query with numbers the number selection.  At the credential form
\* a submission can be made again.
C10_CredentialOutcomes ==
    \A f \in FlowIds :
      LET o == flows[f].last_outcome
          at_user(error) == /\ flows[f].step = "user"
                            /\ flows[f].result = [type |-> "form", errors |-> error]
                            /\ ENABLED StepUser(f)
      IN  /\ (o.kind = "TwilioRestException" /\ o.code = AUTH_ERROR_CODE) => at_user("invalid_auth")
          /\ (o.kind = "TwilioRestException" /\ o.code # AUTH_ERROR_CODE) => at_user("cannot_connect")
          /\ o.kind = "Exception" => at_user("unknown")
          /\ (o.kind = "ok" /\ o.numbers = <<>>) => at_user("no_phone_numbers")
          /\ (o.kind = "ok" /\ o.numbers # <<>>) => flows[f].step = "select_numbers"
          /\ flows[f].step = "select_numbers" => (o.kind = "ok" /\ o.numbers # <<>>)

\* C10 witness: one flow was refused for its credentials and the other for a
\* provider error of another kind; both show the credential form.
C10_Witness ==
    /\ flows["f1"].last_outcome.kind = "TwilioRestException"
    /\ flows["f1"].last_outcome.code = AUTH_ERROR_CODE
    /\ flows["f1"].result.errors = "invalid_auth"
    /\ flows["f2"].last_outcome.kind = "TwilioRestException"
    /\ flows["f2"].last_outcome.code = OTHER_ERROR_CODE
    /\ flows["f2"].result.errors = "cannot_connect"

MUTABLE_FIELDS == {CONF_PHONE_NUMBERS, CONF_EXTERNAL_URL, CONF_DEBUG}

\* C11: no step changes a record's data (account sid, auth token and the
\* creation-time selection) or unique id; a record's options change only in an
\* options-flow step whose re-validation succeeded and that ended with
\* create_entry, the new options hold the number selection (not empty), the
\* external URL and the debug flag and nothing else, and no other record is
\* touched; an options-flow step that ends with "cannot_connect" or
\* "no_selection" leaves every record as it was.
C11_RevisionWritesMutableFieldsOnly ==
    [][/\ \A e \in DOMAIN config_entries :
            /\ e \in DOMAIN config_entries'
            /\ config_entries'[e].data = config_entries[e].data
            /\ config_entries'[e].unique_id = config_entries[e].unique_id
            /\ config_entries'[e].options # config_entries[e].options
                 => /\ options_flow'.type = "create_entry"
                    /\ options_flow'.validated
                    /\ DOMAIN config_entries'[e].options = MUTABLE_FIELDS
                    /\ config_entries'[e].options[CONF_PHONE_NUMBERS] # <<>>
                    /\ \A o \in DOMAIN config_entries \ {e} :
                         config_entries'[o] = config_entries[o]
       /\ (options_flow' # options_flow
             /\ options_flow'.errors \in {"cannot_connect", "no_selection"})
            => config_entries' = config_entries
       /\ ~options_flow'.validated => options_flow'.errors \in {"", "cannot_connect"}]_vars

\* C11 witness: a record was revised (its options differ from its creation-time
\* selection, its credentials are those of creation) and the latest revision
\* attempt failed at the provider.
C11_Witness ==
    /\ options_flow.errors = "cannot_connect"
    /\ \E e \in DOMAIN config_entries :
         /\ DOMAIN config_entries[e].options = MUTABLE_FIELDS
         /\ config_entries[e].options[CONF_PHONE_NUMBERS] # config_entries[e].data[CONF_PHONE_NUMBERS]
         /\ config_entries[e].options[CONF_DEBUG]
         /\ config_entries[e].data[CONF_ACCOUNT_SID] = AccountOf(e)
         /\ config_entries[e].data[CONF_AUTH_TOKEN] \in AuthTokens

\* the reference a call submitted at position k, rendered
RawReference(frame, k) == _render_template(frame.media_urls_raw[1][k])
\* the external URL of the first registry entry that has one
ConfiguredUrl(data) ==
    LET with_url == {i \in 1..Len(data) : data[i].external_url # EmptyStr}
    IN  IF with_url = {} THEN EmptyStr
        ELSE data[CHOOSE i \in with_url : \A j \in with_url : i <= j].external_url
\* base is given without its trailing slashes
NoTrailingSlash(base) == base = <<>> \/ base[Len(base)] # "/"

\* C12: for every reference of a call that enters the handler, the address
\* handed on is: the reference itself if it starts with http:// or https://;
\* the reference itself if it starts with none of /local/, /media/, /api/;
\* otherwise, with a base URL available (the first configured external URL,
\* or else the address the host resolves), the base URL without its trailing
\* slashes followed by the reference, so that exactly one slash stands at the
\* join; and the reference itself when no base URL is available.
C12_MediaRewriting ==
    [][(HandlerEntered /\ call'.media_urls_raw # None /\ call'.media_urls_raw[1] # <<>>)
       => /\ call'.media_urls # None
          /\ Len(call'.media_urls[1]) = Len(call'.media_urls_raw[1])
          /\ \A k \in 1..Len(call'.media_urls[1]) :
               LET ref == RawReference(call', k)
                   got == call'.media_urls[1][k]
                   configured == ConfiguredUrl(hass_data)
               IN  IF \E p \in HTTP_PREFIXES : StartsWith(ref, p) THEN got = ref
                   ELSE IF ~IsLocalPath(ref) THEN got = ref
                   ELSE IF configured # EmptyStr
                   THEN /\ got = RStripSlash(configured) \o ref
                        /\ got # ref
                   ELSE \/ got = ref
                           /\ logged'[1] = LogRecord("warning", "could_not_get_external_url", ref)
                        \/ \E base \in {RStripSlash(h.url) : h \in {o \in MediaHostOutcomes : ~o.raises}} :
                             /\ NoTrailingSlash(base)
                             /\ got = base \o ref
                             /\ got[Len(base) + 1] = "/"
                             /\ got[Len(base) + 2] # "/"]_vars

\* C12 witness: the host resolved an address ending in a slash, and the local
\* reference /local/p of the running call was handed to the provider as that
\* address, its trailing slash removed, followed by the reference.
C12_Witness ==
    /\ call.pc = "await_send"
    /\ call.media_urls_raw # None
    /\ RawReference(call, 1) = <<"/", "local", "/", "p">>
    /\ ConfiguredUrl(hass_data) = EmptyStr
    /\ sent[1].kwargs.media_url = << <<"https:", "/", "/", "h", "/", "local", "/", "p">> >>

\* the positions of a call's media list whose local reference was handed on
\* as given (a rewritten reference is longer than the reference)
Unresolved(frame) ==
    IF frame.media_urls = None THEN {}
    ELSE {k \in 1..Len(frame.media_urls[1]) :
            IsLocalPath(RawReference(frame, k)) /\ frame.media_urls[1][k] = RawReference(frame, k)}
WarningsFor(log, ref) == SelectSeq(log, LAMBDA r : r.level = "warning" /\ r.arg = ref)

\* C13: when a call enters the handler with a local reference and no registry
\* entry has an external URL, the reference is rewritten with the host's
\* address or, the resolution having failed, handed on as given; in the latter
\* case exactly one warning is logged for the reference, and the handler goes on
\* as it does otherwise: with a configured sender number it resolves the client
\* and issues the first send, every send of the call carries the reference as
\* given, each send that returns or fails at the provider is followed by the
\* send for the next target, and the call returns with one send per target.
C13_ResolutionFailureKeepsSending ==
    [][/\ (HandlerEntered /\ call'.media_urls # None /\ ConfiguredUrl(hass_data) = EmptyStr)
            => \A k \in 1..Len(call'.media_urls[1]) :
                 IsLocalPath(RawReference(call', k))
                   => IF k \in Unresolved(call')
                      THEN /\ Len(WarningsFor(logged', RawReference(call', k))) = 1
                           /\ WarningsFor(logged', RawReference(call', k))[1].msg
                                  = "could_not_get_external_url"
                      ELSE /\ \A j \in 1..Len(logged') :
                                logged'[j].msg # "could_not_get_external_url"
                           /\ \E h \in HostUrlOutcomes :
                                ~h.raises /\ call'.media_urls[1][k]
                                               = RStripSlash(h.url) \o RawReference(call', k)
       /\ (HandlerEntered /\ Unresolved(call') # {}
              /\ Contains(_get_all_phone_numbers(hass_data), call'.from_number))
            => /\ call'.entry_client # None
               /\ Len(sent') = IF call'.targets = <<>> THEN 0 ELSE 1
       /\ (Unresolved(call) # {} /\ call.pc = "await_send" /\ call' # call
              /\ call'.pc \in {"await_send", "returned"})
            => /\ Unresolved(call') = Unresolved(call)
               /\ Len(sent') = IF call.i < Len(call.targets) THEN call.i + 1 ELSE call.i
               /\ call'.pc = "returned" <=> call.i = Len(call.targets)
       /\ Unresolved(call') # {}
            => /\ \A j \in 1..Len(sent') :
                    /\ sent'[j].kwargs.to = call'.targets[j]
                    /\ sent'[j].kwargs.media_url = call'.media_urls[1]
               /\ (call'.pc = "returned" /\ call'.entry_client # None)
                    => Len(sent') = Len(call'.targets)]_vars

\* C13 witness: no registry entry has an external URL, the host could not
\* resolve its address, one warning was logged for /local/p, and the call
\* returned after a send for each of its targets, each carrying /local/p.
C13_Witness ==
    /\ call.pc = "returned"
    /\ ConfiguredUrl(hass_data) = EmptyStr
    /\ Unresolved(call) = {1}
    /\ Len(WarningsFor(logged, <<"/", "local", "/", "p">>)) = 1
    /\ Len(call.targets) = MaxTargets
    /\ Len(sent) = MaxTargets
    /\ \A j \in 1..Len(sent) : sent[j].kwargs.media_url[1] = <<"/", "local", "/", "p">>

\* the registry entries of a configuration
EntriesOf(data, e) == {i \in 1..Len(data) : data[i].entry_id = e}

\* configuration e is active with what its revised options say: its one
\* registry entry holds the options' number list, external URL and debug flag
\* and the client of the creation-time credentials, the aggregate sender list
\* (and the published selector) has the revised numbers, and the service is
\* registered
RevisedEntryActive(e) ==
    /\ reload_pc[e] = "idle"
    /\ config_entries[e].state = "loaded"
    /\ DOMAIN config_entries[e].options = MUTABLE_FIELDS
    /\ Cardinality(EntriesOf(hass_data, e)) = 1
    /\ \A i \in EntriesOf(hass_data, e) :
         /\ hass_data[i].phone_numbers = config_entries[e].options[CONF_PHONE_NUMBERS]
         /\ hass_data[i].external_url = config_entries[e].options[CONF_EXTERNAL_URL]
         /\ hass_data[i].debug = config_entries[e].options[CONF_DEBUG]
         /\ hass_data[i].client = Client(config_entries[e].data[CONF_ACCOUNT_SID],
                                         config_entries[e].data[CONF_AUTH_TOKEN])
    /\ Range(config_entries[e].options[CONF_PHONE_NUMBERS])
           \subseteq Range(_get_all_phone_numbers(hass_data))
    /\ service_desc.from_number.options = _get_all_phone_numbers(hass_data)
    /\ has_service

\* C14 (as claimed): every options-flow step that ends with create_entry
\* starts a reload of a configuration.
C14_EveryRevisionReloads ==
    [][(options_flow' # options_flow /\ options_flow'.type = "create_entry")
       => \E e \in EntryIds : reload_pc[e] = "idle" /\ reload_pc'[e] = "unload"]_vars

\* C14 (amended): a step that changes the stored options of an active
\* configuration starts its reload, and only such a step starts one; the reload
\* deactivates the configuration (its registry entry is removed), then activates
\* it; and a reload that was started is eventually over with the configuration
\* active as its revised options say.
C14_ChangedRevisionReloads ==
    /\ [][\A e \in EntryIds :
            /\ (reload_pc[e] = "idle" /\ reload_pc'[e] = "unload")
                 <=> ( /\ config_entries'[e].options # config_entries[e].options
                       /\ config_entries[e].state = "loaded" )
            /\ (reload_pc[e] = "unload" /\ reload_pc'[e] # "unload")
                 => /\ reload_pc'[e] = "setup"
                    /\ EntriesOf(hass_data', e) = {}
                    /\ config_entries'[e].options = config_entries[e].options
            /\ (reload_pc[e] = "setup" /\ reload_pc'[e] # "setup")
                 => /\ reload_pc'[e] = "idle"
                    /\ config_entries'[e].options = config_entries[e].options]_vars
    /\ \A e \in EntryIds : (reload_pc[e] = "unload") ~> RevisedEntryActive(e)

\* C14 witness: a configuration is active with revised options that differ from
\* its creation-time data in the number list and the external URL, next to
\* another active configuration behind which it was inserted again.
C14_Witness ==
    /\ Len(hass_data) = 2
    /\ hass_data[2].entry_id = "e1"
    /\ RevisedEntryActive("e1")
    /\ config_entries["e1"].options[CONF_PHONE_NUMBERS] # config_entries["e1"].data[CONF_PHONE_NUMBERS]
    /\ config_entries["e1"].options[CONF_EXTERNAL_URL] # config_entries["e1"].data[CONF_EXTERNAL_URL]
    /\ config_entries["e1"].options[CONF_DEBUG]
    /\ reload_pc["e2"] = "idle"

\* C15: while a call is suspended in a send, a step that changes the registry
\* leaves the call's frame and its sends as they are; when the call resumes
\* (its send returned or failed at the provider) the client resolved at its
\* start, its sender number, message, targets and media list are unchanged, and
\* if a target is left the send for it is issued through that client with that
\* sender number and message, whatever the registry holds by then; otherwise
\* the call returns.  So all sends of a call go through the client of its
\* first send, with the same sender number and message.
C15_InFlightCallKeepsItsClient ==
    [][/\ (call.pc = "await_send" /\ hass_data' # hass_data)
            => call' = call /\ sent' = sent
       /\ (call.pc = "await_send" /\ call' # call /\ call'.pc # "raised")
            => /\ call' = [call EXCEPT !.pc = call'.pc, !.i = call.i + 1]
               /\ IF call.i < Len(call.targets)
                  THEN /\ call'.pc = "await_send"
                       /\ Len(sent') = Len(sent) + 1
                       /\ SubSeq(sent', 1, Len(sent)) = sent
                       /\ sent'[Len(sent')].client = call.entry_client[1]
                       /\ sent'[Len(sent')].kwargs.to = call.targets[call.i + 1]
                  ELSE call'.pc = "returned" /\ sent' = sent
       /\ \A j \in 1..Len(sent') :
            /\ sent'[j].client = sent'[1].client
            /\ sent'[j].kwargs.from_ = sent'[1].kwargs.from_
            /\ sent'[j].kwargs.body = sent'[1].kwargs.body
            /\ call'.pc # "idle" => /\ Some(sent'[j].client) = call'.entry_client
                                    /\ sent'[j].kwargs.from_ = call'.from_number
                                    /\ sent'[j].kwargs.body = call'.message]_vars

\* C15 witness: a call has issued its second send through the client of the
\* first; the configuration that owned the sender number was deactivated while
\* the call was running, and another configuration is now the first to list
\* the number.
C15_Witness ==
    /\ call.pc = "await_send"
    /\ Len(sent) = 2
    /\ sent[2].client = sent[1].client
    /\ FindClient(hass_data, call.from_number) # None
    /\ FindClient(hass_data, call.from_number) # call.entry_client
    /\ \A i \in 1..Len(hass_data) : hass_data[i].client # call.entry_client[1]

\* C16: in every registry state a number is in the aggregate sender list if and
\* only if the owner lookup finds a client for it; the error "No client found"
\* is never logged; and a call that entered the handler has either resolved a
\* client or returned with the membership error and no send.
C16_NoOwnerErrorUnreachable ==
    /\ \A n \in Numbers :
         Contains(_get_all_phone_numbers(hass_data), n) <=> FindClient(hass_data, n) # None
    /\ \A j \in 1..Len(logged) : logged[j].msg # "no_client_found"
    /\ call.pc \in {"await_send", "returned", "raised"}
         => \/ call.entry_client # None
            \/ /\ call.pc = "returned"
               /\ sent = <<>>
               /\ logged # <<>>
               /\ logged[Len(logged)] =
                      LogRecord("error", "from_number_not_configured", <<call.from_number>>)

\* C16 witness: a call passed the membership test with a sender number that the
\* first registry entry does not list, and resolved the second entry's client.
C16_Witness ==
    /\ call.pc = "await_send"
    /\ Len(hass_data) = 2
    /\ ~Contains(hass_data[1].phone_numbers, call.from_number)
    /\ Contains(_get_all_phone_numbers(hass_data), call.from_number)
    /\ call.entry_client = Some(hass_data[2].client)
    /\ Len(sent) = 1

\* the configuration whose activation registered the service is no longer in
\* the registry, and other configurations are
RegistrarGone ==
    /\ has_service
    /\ hass_data # <<>>
    /\ EntriesOf(hass_data, SendService.handler) = {}

\* C17 (as claimed): with the registering configuration deactivated and others
\* active, a call whose sender number a remaining configuration lists resolves
\* the client of the first such configuration and issues its first send, and a
\* call whose sender number no remaining configuration lists issues no send.
C17_CallsServedWithoutRegistrar ==
    [][(RegistrarGone /\ call.pc = "idle" /\ call'.pc # "idle")
       => IF Owners(hass_data, call'.from_number) # {}
          THEN /\ \E i \in Owners(hass_data, call'.from_number) :
                    /\ \A j \in Owners(hass_data, call'.from_number) : i <= j
                    /\ call'.entry_client = Some(hass_data[i].client)
               /\ Len(sent') = IF call'.targets = <<>> THEN 0 ELSE 1
          ELSE sent' = <<>> /\ call'.pc \in {"returned", "rejected"}]_vars

====
